---- MODULE Spec2Model ----
(***************************************************************************)
(* Model of src/muti_sim.py: the Multi-CAN transmitter.                    *)
(*                                                                         *)
(* PeriodicTask is one cyclic sender with its own thread; the application  *)
(* (MultiCanTransmitterApp) keeps the list periodic_tasks, the message     *)
(* table, the bus handle and the two transmission buttons.  The Tk main    *)
(* thread runs one handler at a time (variable ui holds its position); the *)
(* task threads interleave with it and with each other at every attribute  *)
(* read and write.  Cycle times are kept in milliseconds; real time is not *)
(* modelled: a timed wait ends by its timeout whenever the stop event is   *)
(* not set.                                                                *)
(***************************************************************************)
EXTENDS Integers, Sequences, FiniteSets, TLC

\* ---------------------------------------------------------------- bounds
\* PeriodicTask objects that may exist at once (dead unreferenced ones are
\* collected and their slot is used again).
MaxTasks == 2
\* Rows the message table may hold.
MaxRows == 2
\* can.interface.Bus objects that may exist at once.
MaxBus == 2

Tasks == 1..MaxTasks
Handles == 1..MaxBus
\* self.bus = None
None == 0

\* What the operator can type into the four entry fields of add_message:
\* identifier, payload, cycle time in ms and the ID type of the combobox.
\* Payloads are named by a number (payload 1, payload 2).  The last input
\* has a cycle time of 0: float("0") parses, so it is text add_message
\* accepts.  Text that does not parse is the action add_message_error.
Inputs ==
    { [can_id |-> 1, data |-> 1, cycle |-> 10, id_type |-> "Standard"],
      [can_id |-> 1, data |-> 2, cycle |-> 20, id_type |-> "Extended"],
      [can_id |-> 2, data |-> 1, cycle |-> 10, id_type |-> "Standard"],
      [can_id |-> 2, data |-> 1, cycle |-> 0, id_type |-> "Standard"] }

VARIABLES
    bus,             \* app.bus: None or the handle of the open bus
    shutdown,        \* handles on which bus.shutdown() was called (still referenced)
    task,            \* the PeriodicTask objects, by slot
    periodic_tasks,  \* app.periodic_tasks: a list of task slots
    message_table,   \* rows of the Treeview, in order
    task_lock,       \* app.task_lock: None or the task holding it
    start_button,    \* state of "Start Cyclic Transmission"
    stop_button,     \* state of "Stop Transmission"
    ui,              \* the Tk main thread: the handler it is in and its locals
    last_log         \* the last message a handler passed to self.log

vars == << bus, shutdown, task, periodic_tasks, message_table, task_lock,
           start_button, stop_button, ui, last_log >>

\* ------------------------------------------------------------- helpers
Range(s) == { s[i] : i \in 1..Len(s) }

Min(S) == CHOOSE x \in S : \A y \in S : x <= y

\* No message under construction.
NoMsg == [data |-> 0, ext |-> FALSE, built |-> FALSE]

\* A slot holding no object.
NoTask ==
    [ pc |-> "free", bus |-> None, can_id |-> 0, data |-> 0,
      is_extended |-> FALSE, cycle_time |-> 0, running |-> FALSE,
      stop_event |-> FALSE, msg |-> NoMsg, err |-> FALSE, stopped |-> FALSE ]

\* PeriodicTask.__init__: thread is None (pc "new"), running is True, the
\* stop event is clear.  err (the last send raised) and stopped (a stop() on
\* this task has returned) are history fields.
PeriodicTask(b, can_id, data, is_extended, cycle_time) ==
    [ pc |-> "new", bus |-> b, can_id |-> can_id, data |-> data,
      is_extended |-> is_extended, cycle_time |-> cycle_time, running |-> TRUE,
      stop_event |-> FALSE, msg |-> NoMsg, err |-> FALSE, stopped |-> FALSE ]

\* thread.is_alive()
Alive(tk) == tk.pc \notin {"free", "new", "dead"}

\* The idle main thread.
Idle == [ pc |-> "idle", op |-> "", t |-> 0, idx |-> 0, sel |-> {},
          inp |-> 0 ]

\* Objects nothing refers to any more (thread over, not in the list) are
\* collected; so are shut-down handles no task refers to.
Collect(tk, reg) ==
    [ t \in Tasks |->
        IF tk[t].pc \in {"dead", "new"} /\ t \notin Range(reg)
        THEN NoTask ELSE tk[t] ]

Referenced(tk, sd) == { h \in sd : \E t \in Tasks : tk[t].bus = h }

\* A slot for a new PeriodicTask.
FreeSlots(tk) == { t \in Tasks : tk[t].pc = "free" }

\* The i-th smallest slot of a set.
NthSlot(S, i) == CHOOSE s \in S : Cardinality({ x \in S : x < s }) = i - 1

\* The loops "for task in self.periodic_tasks: if task.can_id == can_id: ...
\* break" of add_message and remove_message: the first task of the list with
\* that identifier, or 0.
FirstTask(can_id) ==
    LET hits == { i \in 1..Len(periodic_tasks) :
                    task[periodic_tasks[i]].can_id = can_id }
    IN  IF hits = {} THEN 0 ELSE periodic_tasks[Min(hits)]

\* A removal that drops the head of the list whatever x is.
RemoveHead(s, x) == Tail(s)

\* list.remove(x)
Remove(s, x) == SelectSeq(s, LAMBDA y : y # x)

\* Treeview.delete(item) of the row at position m.
DeleteRow(tbl, m) == [ i \in 1..(Len(tbl) - 1) |-> IF i < m THEN tbl[i] ELSE tbl[i + 1] ]

\* The selected rows after the row at position m is gone.
ShiftSel(sel, m) == { IF i > m THEN i - 1 ELSE i : i \in sel \ {m} }

\* The row add_message inserts into the table.
Row(inp) == [ can_id |-> inp.can_id, data |-> inp.data, cycle |-> inp.cycle,
              id_type |-> inp.id_type ]

\* ------------------------------------------------------- PeriodicTask
\* A start() that creates a thread whether or not one is alive.
StartAlways(tk) == [tk EXCEPT !.pc = "loop"]

\* A start() that also sets running again.
StartRearm(tk) ==
    IF tk.pc \in {"new", "dead"}
    THEN [tk EXCEPT !.pc = "loop", !.running = TRUE, !.stop_event = FALSE]
    ELSE tk

\* PeriodicTask.start: a thread is created only if there is none alive.
Start(tk) == IF tk.pc \in {"new", "dead"} THEN [tk EXCEPT !.pc = "loop"] ELSE tk

\* A stop() that clears running and forgets the event.
StopSignalNoEvent(tk) == [tk EXCEPT !.running = FALSE]

\* PeriodicTask.stop, lines 57-58: clear running and set the stop event.
StopSignal(tk) == [tk EXCEPT !.running = FALSE, !.stop_event = TRUE]

\* A stop() that does not join: it returns whatever the thread is doing.
JoinedAtOnce(tk) == TRUE

\* PeriodicTask.stop, lines 59-60: join returns once the thread is over (and
\* at once if there is no thread).
Joined(tk) == ~Alive(tk)

\* The process is still running (root.quit() has not ended the main loop).
Live == ui.pc # "closed"

\* _run, lines 33-37: the loop test, then the test of self.bus.  With no bus
\* the thread prints, sleeps one second and returns.
RunLoop(t) ==
    /\ Live
    /\ task[t].pc = "loop"
    /\ LET nxt == IF ~task[t].running THEN "dead"
                  ELSE IF task[t].bus = None THEN "sleep"
                  ELSE "lock"
       IN  task' = Collect([task EXCEPT ![t].pc = nxt], periodic_tasks)
    /\ shutdown' = Referenced(task', shutdown)
    /\ UNCHANGED << bus, periodic_tasks, message_table, task_lock,
                    start_button, stop_button, ui, last_log >>

\* _run, lines 36-37: time.sleep(1) is over; return.
RunSleep(t) ==
    /\ Live
    /\ task[t].pc = "sleep"
    /\ task' = Collect([task EXCEPT ![t].pc = "dead"], periodic_tasks)
    /\ shutdown' = Referenced(task', shutdown)
    /\ UNCHANGED << bus, periodic_tasks, message_table, task_lock,
                    start_button, stop_button, ui, last_log >>

\* A lock that does not exclude: every task gets in.
CanAcquireAnyway(lock) == TRUE

\* threading.Lock.acquire: only a free lock is taken.
CanAcquire(lock) == lock = None

\* _run, lines 40-43: enter "with self.task_lock" and evaluate the first
\* mutable argument of can.Message, self.data.
RunAcquire(t) ==
    /\ Live
    /\ task[t].pc = "lock"
    /\ CanAcquire(task_lock)
    /\ task_lock' = t
    /\ task' = [task EXCEPT ![t].pc = "build",
                            ![t].msg = [data |-> task[t].data, ext |-> FALSE,
                                        built |-> FALSE]]
    /\ UNCHANGED << bus, shutdown, periodic_tasks, message_table,
                    start_button, stop_button, ui, last_log >>

\* _run, line 44: evaluate self.is_extended; the message is complete.
RunBuild(t) ==
    /\ Live
    /\ task[t].pc = "build"
    /\ task' = [task EXCEPT ![t].pc = "send",
                            ![t].msg = [data |-> task[t].msg.data,
                                        ext |-> task[t].is_extended,
                                        built |-> TRUE]]
    /\ UNCHANGED << bus, shutdown, periodic_tasks, message_table, task_lock,
                    start_button, stop_button, ui, last_log >>

\* A send whose exception is not caught: it ends the thread.
AfterSendUncaught(tk, ok) ==
    IF ok THEN [tk EXCEPT !.pc = "wait", !.msg = NoMsg, !.err = FALSE]
    ELSE [tk EXCEPT !.pc = "dead", !.msg = NoMsg, !.err = TRUE]

\* The task after bus.send returned (ok) or raised: both except clauses only
\* print, and the thread goes on to the wait of line 53.
AfterSend(tk, ok) == [tk EXCEPT !.pc = "wait", !.msg = NoMsg, !.err = ~ok]

\* The lock after the with block of line 40 is left.
Release(lock) == None

\* _run, lines 46-51: bus.send returns or raises, the error is printed, and
\* the with block is left, which releases the lock.
RunSend(t) ==
    /\ Live
    /\ task[t].pc = "send"
    /\ \E ok \in BOOLEAN : task' = [task EXCEPT ![t] = AfterSend(@, ok)]
    /\ task_lock' = Release(task_lock)
    /\ UNCHANGED << bus, shutdown, periodic_tasks, message_table,
                    start_button, stop_button, ui, last_log >>

\* _run, lines 53-54: Event.wait(cycle_time) returns True when the event is
\* set (break) and False at the timeout (next turn of the loop).
RunWait(t) ==
    /\ Live
    /\ task[t].pc = "wait"
    /\ LET nxt == IF task[t].stop_event THEN "dead" ELSE "loop"
       IN  task' = Collect([task EXCEPT ![t].pc = nxt, ![t].err = FALSE],
                           periodic_tasks)
    /\ shutdown' = Referenced(task', shutdown)
    /\ UNCHANGED << bus, periodic_tasks, message_table, task_lock,
                    start_button, stop_button, ui, last_log >>

\* ------------------------------------------------ MultiCanTransmitterApp
\* A handle for a new can.interface.Bus object: one nothing refers to.
SpareHandles == { h \in Handles : h # bus /\ \A t \in Tasks : task[t].bus # h }

\* add_message, lines 268-292, up to the first write.  An existing task of
\* the list with the identifier gets its data replaced (line 283); otherwise
\* a task is created on the current self.bus, started and appended, and the
\* row is inserted (line 295).
add_message(inp) ==
    /\ ui.pc = "idle"
    /\ Len(message_table) < MaxRows
    /\ LET existing_task == FirstTask(inp.can_id)
       IN  IF existing_task # 0
           THEN /\ task' = [task EXCEPT ![existing_task].data = inp.data]
                /\ ui' = [Idle EXCEPT !.pc = "upd_cycle", !.op = "add_message",
                                      !.t = existing_task, !.inp = inp]
                /\ UNCHANGED << periodic_tasks, message_table, last_log >>
           ELSE /\ FreeSlots(task) # {}
                /\ LET s == Min(FreeSlots(task))
                   IN  /\ task' = [task EXCEPT ![s] =
                              Start(PeriodicTask(bus, inp.can_id, inp.data,
                                                 inp.id_type = "Extended",
                                                 inp.cycle))]
                       /\ periodic_tasks' = Append(periodic_tasks, s)
                /\ message_table' = Append(message_table, Row(inp))
                /\ last_log' = "Started new task"
                /\ UNCHANGED ui
    /\ UNCHANGED << bus, shutdown, task_lock, start_button, stop_button >>

\* add_message, line 284: existing_task.cycle_time = cycle_time.
add_message_cycle ==
    /\ ui.pc = "upd_cycle"
    /\ task' = [task EXCEPT ![ui.t].cycle_time = ui.inp.cycle]
    /\ ui' = [ui EXCEPT !.pc = "upd_ext"]
    /\ UNCHANGED << bus, shutdown, periodic_tasks, message_table, task_lock,
                    start_button, stop_button, last_log >>

\* add_message, lines 285-295: existing_task.is_extended = is_extended, the
\* log, and the row inserted into the table (also for an update).
add_message_ext ==
    /\ ui.pc = "upd_ext"
    /\ task' = [task EXCEPT ![ui.t].is_extended = (ui.inp.id_type = "Extended")]
    /\ message_table' = Append(message_table, Row(ui.inp))
    /\ last_log' = "Updated existing task"
    /\ ui' = Idle
    /\ UNCHANGED << bus, shutdown, periodic_tasks, task_lock,
                    start_button, stop_button >>

\* add_message, lines 268-271 and 297-299: int(), bytes.fromhex() or float()
\* raises on text that does not parse; the handler logs the error and
\* returns, before anything was looked up or created.
add_message_error ==
    /\ ui.pc = "idle"
    /\ last_log' = "Error adding message"
    /\ UNCHANGED << bus, shutdown, task, periodic_tasks, message_table,
                    task_lock, start_button, stop_button, ui >>

\* remove_message, lines 302-306: the selected rows (a non-empty selection;
\* with none the handler only warns).
remove_message(sel) ==
    /\ ui.pc = "idle"
    /\ sel # {}
    /\ ui' = [Idle EXCEPT !.pc = "rm", !.op = "remove_message", !.sel = sel]
    /\ UNCHANGED << bus, shutdown, task, periodic_tasks, message_table,
                    task_lock, start_button, stop_button, last_log >>

\* remove_message, lines 308-323 and 326-337: the next selected row.  Its
\* task, if the list has one, is signalled to stop (the join follows); with
\* no task the row is deleted.  After the last row the stop button is
\* disabled if no task remains.
remove_message_row ==
    /\ ui.pc = "rm"
    /\ IF ui.sel = {}
       THEN /\ stop_button' = IF periodic_tasks = << >> THEN "disabled"
                              ELSE stop_button
            /\ ui' = Idle
            /\ UNCHANGED << task, message_table, last_log >>
       ELSE LET m == Min(ui.sel)
                task_to_remove == FirstTask(message_table[m].can_id)
            IN  IF task_to_remove # 0
                THEN /\ task' = [task EXCEPT ![task_to_remove] = StopSignal(@)]
                     /\ ui' = [ui EXCEPT !.pc = "rm_join", !.t = task_to_remove]
                     /\ UNCHANGED << message_table, stop_button, last_log >>
                ELSE /\ message_table' = DeleteRow(message_table, m)
                     /\ ui' = [ui EXCEPT !.sel = ShiftSel(ui.sel, m)]
                     /\ last_log' = "No task found"
                     /\ UNCHANGED << task, stop_button >>
    /\ UNCHANGED << bus, shutdown, periodic_tasks, task_lock, start_button >>

\* remove_message, lines 323-331: stop() returns from its join, the task is
\* removed from the list and the row deleted.
remove_message_join ==
    /\ ui.pc = "rm_join"
    /\ Joined(task[ui.t])
    /\ LET m == Min(ui.sel)
       IN  /\ periodic_tasks' = Remove(periodic_tasks, ui.t)
           /\ task' = Collect([task EXCEPT ![ui.t].stopped = TRUE],
                              periodic_tasks')
           /\ message_table' = DeleteRow(message_table, m)
           /\ ui' = [ui EXCEPT !.pc = "rm", !.t = 0, !.sel = ShiftSel(ui.sel, m)]
    /\ shutdown' = Referenced(task', shutdown)
    /\ last_log' = "Stopped and removed task"
    /\ UNCHANGED << bus, task_lock, start_button, stop_button >>

\* A setup_can_bus that creates the bus again whether or not one is open.
setup_can_bus_reinit(opened) ==
    IF opened /\ SpareHandles # {} THEN Min(SpareHandles) ELSE None

\* setup_can_bus, lines 228-262: self.bus afterwards.  An open bus is kept;
\* otherwise can.interface.Bus either returns a new handle or raises (an
\* empty channel raises before it), and self.bus stays None.
setup_can_bus(opened) ==
    IF bus # None THEN bus
    ELSE IF opened THEN Min(SpareHandles)
    ELSE None

\* setup_can_bus, lines 231, 246, 255, 258, 261: the value returned.
setup_can_bus_result(opened) == bus # None \/ opened

\* setup_can_bus, lines 254, 257, 260: what it logs; nothing when the bus is
\* already open.
setup_can_bus_log(opened) ==
    IF bus # None THEN last_log
    ELSE IF opened THEN "CAN bus initialized"
    ELSE "Error initializing CAN bus"

\* A start_cyclic that goes on whatever setup_can_bus returned.
StartAbortsNever(opened) == FALSE

\* start_cyclic, lines 341-345: the handler returns if the bus is not
\* initialized and setup_can_bus fails.
StartAborts(opened) == bus = None /\ setup_can_bus(opened) = None

\* The tasks after start_cyclic, lines 346-371: the list is replaced by an
\* empty one (its tasks are not stopped), and one task per row of the table
\* is created on bus b and started.
StartedTasks(b) ==
    LET kept == Collect(task, << >>)
        free == FreeSlots(kept)
        rowOf(t) == CHOOSE i \in 1..Len(message_table) : NthSlot(free, i) = t
    IN  [ t \in Tasks |->
            IF \E i \in 1..Len(message_table) : NthSlot(free, i) = t
            THEN LET row == message_table[rowOf(t)]
                 IN  Start(PeriodicTask(b, row.can_id, row.data,
                                        row.id_type = "Extended", row.cycle))
            ELSE kept[t] ]

\* The list after start_cyclic: the new tasks in the order of the rows.
StartedList ==
    LET free == FreeSlots(Collect(task, << >>))
    IN  [ i \in 1..Len(message_table) |-> NthSlot(free, i) ]

\* start_cyclic; opened is the outcome of setup_can_bus (lines 228-262),
\* which leaves self.bus None when it fails.
start_cyclic(opened) ==
    /\ ui.pc = "idle"
    /\ start_button = "normal"
    /\ bus = None /\ opened => SpareHandles # {}
    /\ IF StartAborts(opened)
       THEN /\ last_log' = "Cyclic transmission aborted"
            /\ UNCHANGED << bus, task, periodic_tasks, shutdown,
                            start_button, stop_button >>
       ELSE /\ Cardinality(FreeSlots(Collect(task, << >>))) >= Len(message_table)
            /\ bus' = (IF bus = None THEN setup_can_bus(opened) ELSE bus)
            /\ task' = StartedTasks(bus')
            /\ periodic_tasks' = StartedList
            /\ shutdown' = Referenced(task', shutdown)
            /\ start_button' = "disabled"
            /\ stop_button' = "normal"
            /\ last_log' = "Started cyclic transmission"
    /\ UNCHANGED << message_table, task_lock, ui >>

\* stop_cyclic, reset and on_closing all begin with the loop
\* "for task in self.periodic_tasks: task.stop()".
stop_cyclic ==
    /\ ui.pc = "idle"
    /\ stop_button = "normal"
    /\ ui' = [Idle EXCEPT !.pc = "stop", !.op = "stop_cyclic", !.idx = 1]
    /\ UNCHANGED << bus, shutdown, task, periodic_tasks, message_table,
                    task_lock, start_button, stop_button, last_log >>

reset ==
    /\ ui.pc = "idle"
    /\ ui' = [Idle EXCEPT !.pc = "stop", !.op = "reset", !.idx = 1]
    /\ UNCHANGED << bus, shutdown, task, periodic_tasks, message_table,
                    task_lock, start_button, stop_button, last_log >>

on_closing ==
    /\ ui.pc = "idle"
    /\ ui' = [Idle EXCEPT !.pc = "stop", !.op = "on_closing", !.idx = 1]
    /\ last_log' = "Exiting application"
    /\ UNCHANGED << bus, shutdown, task, periodic_tasks, message_table,
                    task_lock, start_button, stop_button >>

\* The next turn of the loop: stop() of the next task up to its join.
stop_next ==
    /\ ui.pc = "stop"
    /\ ui.idx <= Len(periodic_tasks)
    /\ task' = [task EXCEPT ![periodic_tasks[ui.idx]] = StopSignal(@)]
    /\ ui' = [ui EXCEPT !.pc = "join", !.t = periodic_tasks[ui.idx]]
    /\ UNCHANGED << bus, shutdown, periodic_tasks, message_table, task_lock,
                    start_button, stop_button, last_log >>

\* stop() returns from its join.
stop_join ==
    /\ ui.pc = "join"
    /\ Joined(task[ui.t])
    /\ task' = [task EXCEPT ![ui.t].stopped = TRUE]
    /\ ui' = [ui EXCEPT !.pc = "stop", !.t = 0, !.idx = ui.idx + 1]
    /\ UNCHANGED << bus, shutdown, periodic_tasks, message_table, task_lock,
                    start_button, stop_button, last_log >>

\* stop_cyclic, lines 382-385, after the loop.
stop_cyclic_done ==
    /\ ui.pc = "stop" /\ ui.op = "stop_cyclic"
    /\ ui.idx > Len(periodic_tasks)
    /\ periodic_tasks' = << >>
    /\ task' = Collect(task, periodic_tasks')
    /\ shutdown' = Referenced(task', shutdown)
    /\ last_log' = "Cyclic transmission stopped"
    /\ start_button' = "normal"
    /\ stop_button' = "disabled"
    /\ ui' = Idle
    /\ UNCHANGED << bus, message_table, task_lock >>

\* reset, lines 393-409, after the loop: the list is cleared, an open bus is
\* shut down and forgotten, the table is emptied.
reset_done ==
    /\ ui.pc = "stop" /\ ui.op = "reset"
    /\ ui.idx > Len(periodic_tasks)
    /\ periodic_tasks' = << >>
    /\ task' = Collect(task, periodic_tasks')
    /\ bus' = None
    /\ shutdown' = Referenced(task', IF bus # None THEN shutdown \cup {bus}
                                     ELSE shutdown)
    /\ message_table' = << >>
    /\ last_log' = "Application reset"
    /\ start_button' = "normal"
    /\ stop_button' = "disabled"
    /\ ui' = Idle
    /\ UNCHANGED task_lock

\* on_closing, line 416, after the loop: root.quit() ends the main loop and
\* with it the process (the threads are daemons).
on_closing_done ==
    /\ ui.pc = "stop" /\ ui.op = "on_closing"
    /\ ui.idx > Len(periodic_tasks)
    /\ ui' = [Idle EXCEPT !.pc = "closed"]
    /\ UNCHANGED << bus, shutdown, task, periodic_tasks, message_table,
                    task_lock, start_button, stop_button, last_log >>

\* ------------------------------------------------------- specification
\* MultiCanTransmitterApp.__init__, lines 86-92, and the button states of
\* create_widgets (the stop button starts disabled).
Init ==
    /\ bus = None
    /\ shutdown = {}
    /\ task = [ t \in Tasks |-> NoTask ]
    /\ periodic_tasks = << >>
    /\ message_table = << >>
    /\ task_lock = None
    /\ start_button = "normal"
    /\ stop_button = "disabled"
    /\ ui = Idle
    /\ last_log = ""

Next ==
    \/ \E inp \in Inputs : add_message(inp)
    \/ add_message_cycle
    \/ add_message_ext
    \/ add_message_error
    \/ \E sel \in SUBSET (1..Len(message_table)) : remove_message(sel)
    \/ remove_message_row
    \/ remove_message_join
    \/ \E opened \in BOOLEAN : start_cyclic(opened)
    \/ stop_cyclic
    \/ reset
    \/ on_closing
    \/ stop_next
    \/ stop_join
    \/ stop_cyclic_done
    \/ reset_done
    \/ on_closing_done
    \/ \E t \in Tasks : RunLoop(t)
    \/ \E t \in Tasks : RunSleep(t)
    \/ \E t \in Tasks : RunAcquire(t)
    \/ \E t \in Tasks : RunBuild(t)
    \/ \E t \in Tasks : RunSend(t)
    \/ \E t \in Tasks : RunWait(t)

Spec == Init /\ [][Next]_vars

\* ---------------------------------------------- PeriodicTask on its own
\* The class PeriodicTask driven by one caller that constructs the tasks and
\* then calls start() and stop() in any order, any number of times.  The
\* caller keeps every task (periodic_tasks lists them all); ui is the
\* caller's position, and after a return ui.op and ui.t name the call and
\* ui.idx tells whether stop() had returned for that task before (2) or
\* not (1), and for start() whether it found the thread alive (2) or not (1).  start() and stop() read nothing of the message, so the tasks
\* differ only in the bus they are constructed with (None or a handle).
TaskInput == CHOOSE inp \in Inputs : inp.can_id = 1 /\ inp.data = 1

TaskInit ==
    /\ bus = 1
    /\ shutdown = {}
    /\ task \in [ Tasks ->
                    { PeriodicTask(b, TaskInput.can_id, TaskInput.data,
                                   TaskInput.id_type = "Extended",
                                   TaskInput.cycle) : b \in {None, 1} } ]
    /\ periodic_tasks = [ i \in Tasks |-> i ]
    /\ message_table = << >>
    /\ task_lock = None
    /\ start_button = "normal"
    /\ stop_button = "disabled"
    /\ ui = Idle
    /\ last_log = ""

\* task.start() is called.
call_start(t) ==
    /\ ui.pc = "idle"
    /\ ui' = [Idle EXCEPT !.pc = "in_start", !.op = "start", !.t = t]
    /\ UNCHANGED << bus, shutdown, task, periodic_tasks, message_table,
                    task_lock, start_button, stop_button, last_log >>

\* task.start(), lines 26-30, returns.
call_start_return ==
    /\ ui.pc = "in_start"
    /\ task' = [task EXCEPT ![ui.t] = Start(@)]
    /\ ui' = [ui EXCEPT !.pc = "idle",
                        !.idx = IF Alive(task[ui.t]) THEN 2 ELSE 1]
    /\ UNCHANGED << bus, shutdown, periodic_tasks, message_table, task_lock,
                    start_button, stop_button, last_log >>

\* task.stop(), lines 57-58.
call_stop(t) ==
    /\ ui.pc = "idle"
    /\ task' = [task EXCEPT ![t] = StopSignal(@)]
    /\ ui' = [Idle EXCEPT !.pc = "in_stop", !.op = "stop", !.t = t]
    /\ UNCHANGED << bus, shutdown, periodic_tasks, message_table, task_lock,
                    start_button, stop_button, last_log >>

\* task.stop(), lines 59-60: the join is over and stop() returns.
call_stop_return ==
    /\ ui.pc = "in_stop"
    /\ Joined(task[ui.t])
    /\ task' = [task EXCEPT ![ui.t].stopped = TRUE]
    /\ ui' = [ui EXCEPT !.pc = "idle",
                        !.idx = IF task[ui.t].stopped THEN 2 ELSE 1]
    /\ UNCHANGED << bus, shutdown, periodic_tasks, message_table, task_lock,
                    start_button, stop_button, last_log >>

TaskNext ==
    \/ \E t \in Tasks : call_start(t)
    \/ call_start_return
    \/ \E t \in Tasks : call_stop(t)
    \/ call_stop_return
    \/ \E t \in Tasks : RunLoop(t)
    \/ \E t \in Tasks : RunSleep(t)
    \/ \E t \in Tasks : RunAcquire(t)
    \/ \E t \in Tasks : RunBuild(t)
    \/ \E t \in Tasks : RunSend(t)
    \/ \E t \in Tasks : RunWait(t)

TaskSpec == TaskInit /\ [][TaskNext]_vars

\* Scheduling: a thread that can take a step takes it in the end (bus.send
\* returns, the timed waits end); a thread waiting for the lock gets it if
\* the lock is free again and again (every holder releases it and then waits
\* a cycle time); a join that can return returns.
ThreadFairness ==
    \A t \in Tasks :
        /\ WF_vars(RunLoop(t))
        /\ WF_vars(RunSleep(t))
        /\ SF_vars(RunAcquire(t))
        /\ WF_vars(RunBuild(t))
        /\ WF_vars(RunSend(t))
        /\ WF_vars(RunWait(t))

TaskSpecFair ==
    /\ TaskSpec
    /\ ThreadFairness
    /\ WF_vars(call_start_return)
    /\ WF_vars(call_stop_return)

\* ------------------------------------------------------------- claims
\* A transmitter that is transmitting: its thread is alive, it has not been
\* told to stop, and it was created on a bus.
Active(t) == Alive(task[t]) /\ task[t].running /\ task[t].bus # None

\* The task is inside the with block of _run: building its message or in
\* bus.send.
InSendStep(t) == task[t].pc \in {"build", "send"}

\* C1: at most one active (running) transmitter exists for any CAN
\* identifier, after any sequence of add, remove, start, stop and reset.
C1_OneActivePerIdentifier ==
    \A t1, t2 \in Tasks :
        (Active(t1) /\ Active(t2) /\ task[t1].can_id = task[t2].can_id)
            => t1 = t2

\* C2: at most one transmitter is inside the bus send step (message
\* construction plus bus.send) in every reachable state.
C2_SendsNeverOverlap ==
    Cardinality({ t \in Tasks : InSendStep(t) }) <= 1

\* One task is in bus.send while another waits for the lock.
C2_Witness ==
    \E t1, t2 \in Tasks :
        /\ t1 # t2
        /\ task[t1].pc = "send"
        /\ task[t2].pc = "lock"
        /\ task_lock = t1

\* C3: once stop() has returned for a transmitter its thread is over, so it
\* performs no further send, wherever it was when stop() was called.
C3_NoSendAfterStop ==
    \A t \in Tasks : task[t].stopped => ~Alive(task[t])

\* stop() has returned for a task created on a bus while the handler is
\* still stopping the others.
C3_Witness ==
    \E t \in Tasks :
        /\ task[t].stopped
        /\ task[t].bus # None
        /\ task[t].pc = "dead"
        /\ ui.pc \in {"stop", "join"}

\* C4: when stop_cyclic has returned the list is empty and no transmitter
\* created earlier is still running.
C4_StopAllStopsEveryTransmitter ==
    (ui.pc = "idle" /\ last_log = "Cyclic transmission stopped")
        => (periodic_tasks = << >> /\ \A t \in Tasks : ~Active(t))

\* What stop() leaves behind: running cleared, the event set, no thread.
StopEndState(tk) == ~tk.running /\ tk.stop_event /\ ~Alive(tk)

\* C5: stop() is idempotent and always returns.  Whenever stop() has just
\* returned, first call or repeated, started task or not, the task is in the
\* one end state; a repeated stop() on a task in that state changes nothing
\* of it; and every stop() that was called returns.
C5_StopIdempotentAndReturns ==
    /\ [](ui.pc = "idle" /\ ui.op = "stop" => StopEndState(task[ui.t]))
    /\ [][\A t \in Tasks :
            (task[t].stopped /\ StopEndState(task[t])
                /\ ui.pc = "idle" /\ ui'.op = "stop" /\ ui'.t = t)
            => task'[t] = task[t]]_vars
    /\ \A t \in Tasks :
            (ui.pc = "in_stop" /\ ui.t = t) ~> (ui.pc = "idle" /\ task[t].stopped)

\* A repeated stop() has returned for a task that was created on a bus and
\* started, while the other task's thread is running.
C5_Witness ==
    /\ ui.pc = "idle" /\ ui.op = "stop" /\ ui.idx = 2
    /\ task[ui.t].bus # None
    /\ task[ui.t].pc = "dead"
    /\ \E o \in Tasks : o # ui.t /\ Alive(task[o])

\* add_message has just returned; the last row of the table is its input.
AddReturned ==
    /\ ui.pc = "idle"
    /\ last_log \in {"Started new task", "Updated existing task"}

\* The transmitters of an identifier: the tasks of the list, and the tasks
\* outside it that are still transmitting.
Transmitters(can_id) ==
    { t \in Tasks : /\ task[t].pc # "free"
                    /\ task[t].can_id = can_id
                    /\ (t \in Range(periodic_tasks) \/ Active(t)) }

\* C6: after add_message for an identifier exactly one transmitter exists
\* for it (the one updated in place).
C6_OneTransmitterAfterAdd ==
    AddReturned =>
        Cardinality(Transmitters(message_table[Len(message_table)].can_id)) = 1

\* C7: no message a transmitter sends combines fields of two specs: the
\* payload and the extended flag of every message passed to bus.send are
\* those of one input for the task's identifier.
C7_NoTornMessage ==
    \A t \in Tasks :
        task[t].pc = "send" =>
            \E inp \in Inputs :
                /\ inp.can_id = task[t].can_id
                /\ inp.data = task[t].msg.data
                /\ (inp.id_type = "Extended") = task[t].msg.ext

\* C8: a transmitter that finds the bus absent does not terminate: as long
\* as it has not been stopped its thread stays alive.
C8_NoBusDoesNotTerminate ==
    \A t \in Tasks :
        (task[t].pc # "free" /\ task[t].bus = None /\ task[t].running)
            => task[t].pc # "dead"

\* C9: a failed send never stops the transmitter.  After a send that raised
\* the task is in its timed wait without the lock; the failing step leaves
\* running, the stop event and every other task as they were and releases
\* the lock; and the next step of the task is the end of that wait, which
\* leads to the next turn of the loop unless stop() was called meanwhile.
C9_SendFailureKeepsRunning ==
    /\ [](\A t \in Tasks : task[t].err => (task[t].pc = "wait" /\ task_lock # t))
    /\ [][\A t \in Tasks :
            /\ (~task[t].err /\ task'[t].err) =>
                  /\ task'[t].running = task[t].running
                  /\ task'[t].stop_event = task[t].stop_event
                  /\ task_lock' = None
                  /\ \A o \in Tasks \ {t} : task'[o] = task[o]
                  /\ periodic_tasks' = periodic_tasks
            /\ (task[t].err /\ ~task'[t].err) =>
                  (task'[t].pc = "loop" \/ task[t].stop_event)]_vars

\* A send of a running transmitter has failed while another transmitter is
\* active.
C9_Witness ==
    \E t, o \in Tasks :
        /\ t # o
        /\ task[t].err /\ task[t].running
        /\ Active(o)

\* C10: start_cyclic with the bus closed and a failing open aborts with no
\* partial start: the aborting step leaves the tasks, the list, the buttons
\* and the (closed) bus as they were, and start_cyclic never goes through
\* with the bus closed.
C10_FailedOpenAbortsStart ==
    [][ /\ (last_log' = "Cyclic transmission aborted" /\ last_log' # last_log) =>
              /\ bus = None /\ bus' = None
              /\ UNCHANGED << task, periodic_tasks, shutdown, message_table,
                              start_button, stop_button >>
        /\ (last_log' = "Started cyclic transmission" /\ last_log' # last_log) =>
              /\ bus' # None
              /\ bus # None => bus' = bus ]_vars

\* start_cyclic has aborted with rows in the table and a task in the list.
C10_Witness ==
    /\ ui.pc = "idle"
    /\ last_log = "Cyclic transmission aborted"
    /\ bus = None
    /\ message_table # << >>
    /\ periodic_tasks # << >>

\* The log entries add_message ends with.
AddLogs == {"Started new task", "Updated existing task"}

\* A task record of a transmitter that is transmitting.
ActiveTask(tk) == Alive(tk) /\ tk.running /\ tk.bus # None

\* The transmitters of an identifier among the tasks tk with the list reg.
TransmittersIn(tk, reg, can_id) ==
    { t \in Tasks : /\ tk[t].pc # "free"
                    /\ tk[t].can_id = can_id
                    /\ (t \in Range(reg) \/ ActiveTask(tk[t])) }

\* C11: add_message followed by remove_message of a row with the same
\* identifier leaves no transmitter for that identifier (none in the list,
\* none still transmitting) and leaves the bus as it was.  The step is the
\* return of stop() in remove_message, the first log entry after that of
\* add_message.
C11_AddThenRemoveLeavesNone ==
    [][ (/\ ui.pc = "rm_join" /\ ui'.pc = "rm"
         /\ last_log \in AddLogs
         /\ message_table[Min(ui.sel)].can_id
                = message_table[Len(message_table)].can_id)
        => /\ TransmittersIn(task', periodic_tasks',
                             message_table[Min(ui.sel)].can_id) = {}
           /\ bus' = bus
           /\ shutdown' = shutdown ]_vars

\* C12: a malformed input never gets into a transmitter or the table:
\* every transmitter and every row has an identifier within the range of its
\* ID type and a strictly positive cycle time.  (Payloads are named, not
\* measured, in this model; the two other conditions are stated.)
C12_MalformedInputRejected ==
    /\ \A t \in Tasks :
           task[t].pc # "free" =>
               /\ task[t].cycle_time > 0
               /\ task[t].can_id >= 0
               /\ task[t].can_id <= (IF task[t].is_extended THEN 536870911
                                                            ELSE 2047)
    /\ \A i \in 1..Len(message_table) :
           /\ message_table[i].cycle > 0
           /\ message_table[i].can_id >= 0
           /\ message_table[i].can_id
                  <= (IF message_table[i].id_type = "Extended" THEN 536870911
                                                               ELSE 2047)

\* C13: stop_cyclic leaves the bus handle as it is; reset closes the bus only
\* after every transmitter has stopped (none is still transmitting when the
\* handle is shut down), and after reset the list is empty and the bus absent.
C13_StopKeepsBusResetClosesLast ==
    [][ /\ (ui.op = "stop_cyclic" /\ ui' # ui)
            => (bus' = bus /\ shutdown' \subseteq shutdown)
        /\ (ui.op = "reset" /\ ui.pc = "stop" /\ ui'.pc = "idle")
            => /\ \A t \in Tasks : ~ActiveTask(task[t])
               /\ periodic_tasks' = << >>
               /\ bus' = None ]_vars

\* C14: when on_closing has finished, no transmitter created during the
\* session is still transmitting.
C14_ShutdownStopsEveryTransmitter ==
    ui.pc = "closed" => \A t \in Tasks : ~ActiveTask(task[t])

\* ------------------------------------------ setup_can_bus called directly
\* start_cyclic calls setup_can_bus only while self.bus is None.  Here the
\* method is called at any idle moment of the application, next to
\* add_message and reset, so that it also runs on an open bus.
call_setup ==
    /\ ui.pc = "idle"
    /\ ui' = [Idle EXCEPT !.pc = "setup", !.op = "setup_can_bus",
                 !.inp = [result |-> FALSE,
                          retry |-> ui.op = "setup_can_bus"
                                    /\ ~ui.inp.result]]
    /\ UNCHANGED << bus, shutdown, task, periodic_tasks, message_table,
                    task_lock, start_button, stop_button, last_log >>

\* setup_can_bus returns; opened is whether can.interface.Bus returned a bus.
\* ui.inp keeps the value returned, and whether the call before had failed.
setup_return(opened) ==
    /\ ui.pc = "setup"
    /\ bus = None /\ opened => SpareHandles # {}
    /\ bus' = setup_can_bus(opened)
    /\ last_log' = setup_can_bus_log(opened)
    /\ ui' = [Idle EXCEPT !.op = "setup_can_bus",
                 !.inp = [result |-> setup_can_bus_result(opened),
                          retry |-> ui.inp.retry]]
    /\ UNCHANGED << shutdown, task, periodic_tasks, message_table,
                    task_lock, start_button, stop_button >>

OpenNext ==
    \/ call_setup
    \/ \E opened \in BOOLEAN : setup_return(opened)
    \/ \E inp \in Inputs : add_message(inp)
    \/ add_message_cycle
    \/ add_message_ext
    \/ add_message_error
    \/ reset
    \/ stop_next
    \/ stop_join
    \/ reset_done
    \/ \E t \in Tasks : RunLoop(t)
    \/ \E t \in Tasks : RunSleep(t)
    \/ \E t \in Tasks : RunAcquire(t)
    \/ \E t \in Tasks : RunBuild(t)
    \/ \E t \in Tasks : RunSend(t)
    \/ \E t \in Tasks : RunWait(t)

OpenSpec == Init /\ [][OpenNext]_vars

\* C15: setup_can_bus is idempotent and failure-safe.  It returns True
\* exactly when self.bus is set afterwards; on an open bus it returns True,
\* keeps the handle, shuts nothing down and logs nothing; on an absent bus it
\* either fails and leaves it absent or sets a handle that was never shut
\* down.  (That a failed open can be retried with success is the witness.)
C15_OpenIdempotentFailureSafe ==
    [][ (ui.pc = "setup" /\ ui' # ui)
        => /\ ui'.inp.result = (bus' # None)
           /\ shutdown' = shutdown
           /\ bus # None => (bus' = bus /\ ui'.inp.result /\ last_log' = last_log)
           /\ bus = None => (bus' = None \/ bus' \in Handles \ shutdown) ]_vars

\* An open that failed was called again and succeeded.
C15_Witness ==
    /\ ui.pc = "idle" /\ ui.op = "setup_can_bus"
    /\ ui.inp.retry /\ ui.inp.result
    /\ bus # None

\* _run, lines 46-51: the lines written for the send a task has just
\* completed: the print of an except clause, and nothing when bus.send
\* returned.
Emitted(tk) == IF tk.err THEN 1 ELSE 0

\* C16: every send a transmitter has completed, successful or failed, has
\* emitted exactly one event.
C16_OneEventPerSend ==
    \A t \in Tasks : task[t].pc = "wait" => Emitted(task[t]) = 1

\* C17: remove_message of a row affects only the row's identifier.  In every
\* step of the handler the transmitters of other identifiers keep their
\* fields and their place in the list.  If the list has no transmitter for
\* the identifier, list and tasks stay as they are and the log says none was
\* found; otherwise one of them is told to stop, and when stop() has
\* returned its thread has ended, it leaves the list and the log says so.
C17_RemoveAffectsOnlyItsIdentifier ==
    [][ (ui.pc \in {"rm", "rm_join"} /\ ui.sel # {} /\ ui' # ui)
        => LET id == message_table[Min(ui.sel)].can_id
               listed == { t \in Range(periodic_tasks) : task[t].can_id = id }
           IN  /\ \A o \in Tasks :
                     task[o].can_id # id
                         => /\ task'[o] = task[o]
                            /\ (o \in Range(periodic_tasks'))
                                   = (o \in Range(periodic_tasks))
               /\ listed = {}
                     => /\ periodic_tasks' = periodic_tasks
                        /\ task' = task
                        /\ last_log' = "No task found"
               /\ (listed # {} /\ ui.pc = "rm")
                     => /\ ui'.pc = "rm_join"
                        /\ ui'.t \in listed
                        /\ ~task'[ui'.t].running
                        /\ periodic_tasks' = periodic_tasks
               /\ ui.pc = "rm_join"
                     => /\ ui.t \in listed
                        /\ ~Alive(task[ui.t])
                        /\ ui.t \notin Range(periodic_tasks')
                        /\ Len(periodic_tasks') = Len(periodic_tasks) - 1
                        /\ last_log' = "Stopped and removed task" ]_vars

\* stop() of the removed task is about to return while a transmitter of
\* another identifier is in the list and transmitting.
C17_Witness ==
    /\ ui.pc = "rm_join"
    /\ Joined(task[ui.t])
    /\ \E o \in Range(periodic_tasks) :
           task[o].can_id # task[ui.t].can_id /\ Active(o)

\* C19: no send is attempted on a bus handle that has been shut down.
C19_NoSendOnClosedBus ==
    \A t \in Tasks : task[t].pc = "send" => task[t].bus \notin shutdown

\* The lifecycle of a task: 0 Idle (constructed, never started), 1 Running,
\* 2 Stopping (stop() was called: running is cleared), 3 Stopped (stop() has
\* returned).
Phase(tk) ==
    IF tk.stopped THEN 3
    ELSE IF ~tk.running THEN 2
    ELSE IF tk.pc = "new" THEN 0
    ELSE 1

\* C18: the lifecycle of a transmitter only moves forward, and Stopped is
\* terminal: once stop() has returned for a task, running stays cleared and
\* the event set, and no start() brings it to a send again (a thread that
\* start() creates then gets no further than the test of its loop).
C18_LifecycleForwardStoppedTerminal ==
    /\ [][\A t \in Tasks : Phase(task'[t]) >= Phase(task[t])]_vars
    /\ [](\A t \in Tasks :
            task[t].stopped
                => /\ ~task[t].running
                   /\ task[t].stop_event
                   /\ task[t].pc \in {"new", "dead", "loop"})

\* start() was called after stop() had returned, for a task created on a
\* bus: its new thread is at the test of the loop.
C18_Witness ==
    \E t \in Tasks :
        /\ task[t].stopped
        /\ task[t].bus # None
        /\ task[t].pc = "loop"

\* C20: a transmitter has at most one live thread: a start() that finds the
\* thread alive leaves the task as it is, creating nothing; otherwise it
\* creates the one thread, at the head of _run.  So between two sends of a
\* task there is always the wait of a cycle time.
C20_OneThreadPerTransmitter ==
    /\ [][ (ui.pc = "in_start" /\ ui' # ui)
            => /\ Alive(task[ui.t]) => task' = task
               /\ ~Alive(task[ui.t])
                     => /\ task'[ui.t] = [task[ui.t] EXCEPT !.pc = "loop"]
                        /\ \A o \in Tasks \ {ui.t} : task'[o] = task[o] ]_vars
    /\ [][ \A t \in Tasks :
             (task[t].pc = "send" /\ task'[t].pc # "send")
                 => task'[t].pc = "wait" ]_vars

\* start() has returned for a task whose thread it found alive, and the
\* thread is sending.
C20_Witness ==
    /\ ui.pc = "idle" /\ ui.op = "start" /\ ui.idx = 2
    /\ task[ui.t].pc = "send"

====
